---------------------------- MODULE Spec2Model ----------------------------
(***************************************************************************)
(* Model of the scripts of the FEniCSx tutorial book:                      *)
(*   - chapter2/ns_code2.ipynb, "Flow past a cylinder (DFG 2D-3)":         *)
(*     the boundary tagging loop, the splitting-scheme time loop and the   *)
(*     MPI gathers of the drag, lift and pressure diagnostics.             *)
(* Python floats are IEEE binary64 numbers; the time variables t, dt, T    *)
(* are modelled with their rounding (round to nearest, ties to even).      *)
(***************************************************************************)
EXTENDS Integers, Sequences, FiniteSets, TLC

(***************************************************************************)
(* Unsigned multi-precision integers: W limbs of LimbBits bits, least      *)
(* significant limb first.  They carry the binary64 significands.          *)
(***************************************************************************)
LimbBits == 2^4
Base == 2^LimbBits
W == 2^3
MantBits == 52 + 1          \* precision of an IEEE binary64 significand

RECURSIVE IntBitLen(_)
IntBitLen(n) == IF n = 0 THEN 0 ELSE 1 + IntBitLen(n \div 2)

\* the W limbs F(1), ..., F(W), as a tuple
Limbs(F(_)) == <<F(1), F(2), F(3), F(4), F(5), F(6), F(7), F(8)>>

BigZero == Limbs(LAMBDA k : 0)
BigOfSmall(n) == Limbs(LAMBDA k : IF k = 1 THEN n ELSE 0)
BigPow2(n) ==
    Limbs(LAMBDA k : IF k - 1 = n \div LimbBits THEN 2^(n % LimbBits) ELSE 0)

RECURSIVE AddFrom(_, _, _, _)
AddFrom(a, b, k, c) ==
    IF k > W THEN <<>>
    ELSE <<(a[k] + b[k] + c) % Base>>
         \o AddFrom(a, b, k+1, (a[k] + b[k] + c) \div Base)
BigAdd(a, b) == AddFrom(a, b, 1, 0)

RECURSIVE SubFrom(_, _, _, _)
SubFrom(a, b, k, c) ==
    IF k > W THEN <<>>
    ELSE <<(a[k] - b[k] - c + Base) % Base>>
         \o SubFrom(a, b, k+1, IF a[k] - b[k] - c < 0 THEN 1 ELSE 0)
\* a - b for a >= b
BigSub(a, b) == SubFrom(a, b, 1, 0)

RECURSIVE CmpFrom(_, _, _)
CmpFrom(a, b, k) ==
    IF k = 0 THEN 0
    ELSE IF a[k] < b[k] THEN -1
    ELSE IF a[k] > b[k] THEN 1
    ELSE CmpFrom(a, b, k-1)
\* -1, 0 or 1 as a < b, a = b or a > b
BigCmp(a, b) == CmpFrom(a, b, W)

BigAbsDiff(a, b) == IF BigCmp(a, b) >= 0 THEN BigSub(a, b) ELSE BigSub(b, a)

RECURSIVE TopLimb(_, _)
TopLimb(a, k) == IF k = 0 THEN 0 ELSE IF a[k] # 0 THEN k ELSE TopLimb(a, k-1)
BitLen(a) ==
    LET k == TopLimb(a, W)
    IN  IF k = 0 THEN 0 ELSE (k-1) * LimbBits + IntBitLen(a[k])

\* bit n (bit 0 is the least significant)
Bit(a, n) == (a[n \div LimbBits + 1] \div 2^(n % LimbBits)) % 2

\* the n low bits of a
BigLow(a, n) ==
    Limbs(LAMBDA k :
        IF (k-1) * LimbBits + LimbBits <= n THEN a[k]
        ELSE IF (k-1) * LimbBits >= n THEN 0
        ELSE a[k] % 2^(n - (k-1) * LimbBits))

LimbAt(a, k) == IF k >= 1 /\ k <= W THEN a[k] ELSE 0
BigShl(a, n) ==
    Limbs(LAMBDA k :
        (LimbAt(a, k - n \div LimbBits) % 2^(LimbBits - (n % LimbBits)))
            * 2^(n % LimbBits)
        + LimbAt(a, k - n \div LimbBits - 1) \div 2^(LimbBits - (n % LimbBits)))
BigShr(a, n) ==
    Limbs(LAMBDA k :
        LimbAt(a, k + n \div LimbBits) \div 2^(n % LimbBits)
        + (LimbAt(a, k + n \div LimbBits + 1) % 2^(n % LimbBits))
            * 2^(LimbBits - (n % LimbBits)))

\* a small multi-precision integer as an integer
ToInt(a) == a[1] + Base * a[2]

\* binary long division: st holds the quotient and remainder of the bits of a
\* above bit k
RECURSIVE DivStep(_, _, _, _)
DivStep(a, b, k, st) ==
    IF k < 0 THEN st
    ELSE LET r2 == BigAdd(BigAdd(st.r, st.r), BigOfSmall(Bit(a, k)))
         IN  IF BigCmp(r2, b) >= 0
             THEN DivStep(a, b, k-1,
                          [q |-> BigAdd(st.q, BigPow2(k)), r |-> BigSub(r2, b)])
             ELSE DivStep(a, b, k-1, [q |-> st.q, r |-> r2])
\* quotient and remainder of a by b, b > 0; the bits of a above bit sh-1 are
\* fewer than those of b, so they are a remainder already
BigDivMod(a, b) ==
    LET sh == IF BitLen(a) >= BitLen(b) THEN BitLen(a) - BitLen(b) + 1 ELSE 0
    IN  DivStep(a, b, sh - 1, [q |-> BigZero, r |-> BigShr(a, sh)])

(***************************************************************************)
(* Non-negative binary64 numbers in fixed point: the value of x is         *)
(* x * 2^-FracBits, where 2^-FracBits is the unit in the last place of     *)
(* dt/2, dt = 1/1600 (no number of the time loop has a bit below it).      *)
(***************************************************************************)
T == 8                      \* final time
DtDen == 1600               \* dt = 1/1600
FracBits == MantBits + IntBitLen(DtDen)

FromInt(n) == BigShl(BigOfSmall(n), FracBits)

\* a rounded to MantBits significant bits, to nearest, ties to even
RoundToMant(a) ==
    LET d == BitLen(a) - MantBits
    IN  IF d <= 0 THEN a
        ELSE LET low == BigLow(a, d)
                 c == BigCmp(low, BigPow2(d-1))
                 trunc == BigSub(a, low)
             IN  IF c > 0 \/ (c = 0 /\ Bit(a, d) = 1)
                 THEN BigAdd(trunc, BigPow2(d))
                 ELSE trunc

\* float addition a + b
FAdd(a, b) == RoundToMant(BigAdd(a, b))

\* float subtraction a - b, a >= b
FSub(a, b) == RoundToMant(BigSub(a, b))

\* float division a / b: the quotient rounded to MantBits significant bits
FDiv(a, b) ==
    LET s0 == (MantBits - 1) + BitLen(b) - BitLen(a)
        d0 == BigDivMod(BigShl(a, s0), b)
        s == IF BitLen(d0.q) < MantBits THEN s0 + 1 ELSE s0
        d == IF s = s0 THEN d0 ELSE BigDivMod(BigShl(a, s), b)
        c == BigCmp(BigAdd(d.r, d.r), b)
        n == IF c > 0 \/ (c = 0 /\ Bit(d.q, 0) = 1)
             THEN BigAdd(d.q, BigOfSmall(1))
             ELSE d.q
    IN  BigShl(n, FracBits - s)

\* int(x): truncation of a float
FTrunc(a) == ToInt(BigShr(a, FracBits))

FLeq(a, b) == BigCmp(a, b) <= 0

dt == FDiv(FromInt(1), FromInt(DtDen))      \* time step size
num_steps == FTrunc(FDiv(FromInt(T), dt))
half_dt == FDiv(dt, FromInt(2))             \* dt / 2

(***************************************************************************)
(* Bounds of the model.                                                    *)
(***************************************************************************)
MaxIter == 3        \* time steps explored by a serial run
NRanks == 2         \* largest communicator size
MaxCells == 2       \* colliding cells a rank finds for a probe point
MaxCurves == 5      \* boundary curves of the fluid domain

\* values a solver may return for a field (the amplitude of the field)
Vals == {0, 1}

\* time steps explored with sz processes
RunCap(sz) == MaxIter + 1 - sz

Min(a, b) == IF a <= b THEN a ELSE b

VARIABLES
    \* the time loop
    pc,             \* position in the script
    i,              \* loop variable: index of the current (at "top": next) step
    t,              \* simulated time
    inlet_t,        \* inlet_velocity.t
    u_inlet,        \* the interpolated inlet profile
    b1,             \* right-hand side of step 1: the data it was assembled from
    u_s, phi, p_, u_, u_n, u_n1,
    vtx,            \* the two VTX writers: steps written, open
    ksp_log,        \* solvers in the order of their solve calls
    phi_log,        \* pressure corrections returned by solver2
    u_log,          \* velocities returned by solver3
    \* the diagnostics and their gathers
    size,           \* mesh.comm.size
    front_cells, back_cells,
    rpc,            \* position of each rank in the diagnostics
    chan,           \* contributions sent to the root, not yet gathered
    gcalls,         \* gathers each rank has called in this time step
    drag_coeff, lift_coeff, p_front, p_back,
    t_u, t_p, C_D, C_L, p_diff,
    \* the boundary tagging
    tpc, boundaries, bidx, inflow, outflow, walls, obstacle, groups,
    \* the nonlinear Poisson notebook, on the ranks of MPI.COMM_WORLD
    npc,            \* position of each rank in the script
    newton,         \* n, converged as returned by solver.solve
    error_local,    \* each rank's assemble_scalar of (uh - u_ex)**2 * dx
    nodal_max,      \* each rank's numpy.max(numpy.abs(uh - u_D))
    sum_buf, max_buf,   \* contributions to the two allreduce calls
    error_L2, error_max,
    out,            \* the lines printed, in the order of printing
    \* the execution of a notebook cell by the book build
    exec,           \* "running", "finished" or "timeout"
    clock,          \* seconds the cell has been running
    \* the cells of the flow-past-a-cylinder notebook
    nb_pc,          \* the next cell (group of cells) to run
    seen,           \* the kinds of work done so far
    last            \* the kind of work done last

loopvars == <<pc, i, t, inlet_t, u_inlet, b1, u_s, phi, p_, u_, u_n, u_n1,
              vtx, ksp_log, phi_log, u_log>>
partvars == <<size, front_cells, back_cells>>
diagvars == <<rpc, chan, gcalls, drag_coeff, lift_coeff, p_front, p_back,
              t_u, t_p, C_D, C_L, p_diff>>
tagvars == <<tpc, boundaries, bidx, inflow, outflow, walls, obstacle, groups>>
nlvars == <<npc, newton, error_local, nodal_max, sum_buf, max_buf,
            error_L2, error_max, out>>
bldvars == <<exec, clock>>
phvars == <<nb_pc, seen, last>>
bookvars == <<nlvars, bldvars, phvars>>
vars == <<loopvars, partvars, diagvars, tagvars, bookvars>>

Ranks == 0 .. size - 1
None == <<>>

(***************************************************************************)
(* Boundary tagging (model rank).  Lengths in units of 1e-8, the absolute  *)
(* tolerance of np.allclose.                                               *)
(***************************************************************************)
L == 220000000              \* 2.2
H == 41000000               \* 0.41
c_x == 20000000             \* 0.2
c_y == c_x
inlet_marker == 2
outlet_marker == 3
wall_marker == 4
obstacle_marker == 5
RtolInv == 10^5             \* 1 / rtol of np.allclose
Atol == 1                   \* atol of np.allclose, 1e-8

Abs(x) == IF x < 0 THEN -x ELSE x

\* np.allclose(a, b): |a - b| <= atol + rtol * |b| in every component
AllClose(a, b) ==
    \A k \in 1..3 : Abs(a[k] - b[k]) <= Atol + Abs(b[k]) \div RtolInv

InletCentre == <<0, H \div 2, 0>>
OutletCentre == <<L, H \div 2, 0>>
TopCentre == <<L \div 2, H, 0>>
BottomCentre == <<L \div 2, 0, 0>>

\* the list a curve with this centre of mass is appended to
ClassifyNoElse(com) ==
    IF AllClose(com, InletCentre) THEN "inflow"
    ELSE IF AllClose(com, OutletCentre) THEN "outflow"
    ELSE IF AllClose(com, TopCentre) \/ AllClose(com, BottomCentre) THEN "walls"
    ELSE "none"
Classify(com) ==
    IF AllClose(com, InletCentre) THEN "inflow"
    ELSE IF AllClose(com, OutletCentre) THEN "outflow"
    ELSE IF AllClose(com, TopCentre) \/ AllClose(com, BottomCentre) THEN "walls"
    ELSE "obstacle"

\* centres of mass a boundary curve may have: those of the four sides and of
\* the disk, one within the tolerance of the inlet centre and one outside
\* the tolerance of the outlet centre
Centres ==
    { InletCentre, OutletCentre, TopCentre, BottomCentre, <<c_x, c_y, 0>>,
      <<Atol, H \div 2, 0>>, <<L - 2 * (L \div RtolInv), H \div 2, 0>> }

\* the lists of n boundary curves (dim, tag) with their centres of mass, no
\* two curves with the same centre
RECURSIVE BoundaryLists(_)
BoundaryLists(n) ==
    IF n = 0 THEN { <<>> }
    ELSE { Append(bs, [tag |-> n, com |-> c]) :
             bs \in BoundaryLists(n - 1),
             c \in Centres } \ 
         { Append(bs, [tag |-> n, com |-> bs[k].com]) :
             bs \in BoundaryLists(n - 1), k \in 1..(n-1) }

InitTag(bs) ==
    /\ tpc = "classify"
    /\ boundaries = bs
    /\ bidx = 1
    /\ inflow = <<>> /\ outflow = <<>> /\ walls = <<>> /\ obstacle = <<>>
    /\ groups = <<>>

\* one pass of "for boundary in boundaries"
ClassifyBoundary ==
    /\ tpc = "classify" /\ bidx <= Len(boundaries)
    /\ LET b == boundaries[bidx]
           c == Classify(b.com)
       IN  /\ inflow' = IF c = "inflow" THEN Append(inflow, b.tag) ELSE inflow
           /\ outflow' = IF c = "outflow" THEN Append(outflow, b.tag) ELSE outflow
           /\ walls' = IF c = "walls" THEN Append(walls, b.tag) ELSE walls
           /\ obstacle' = IF c = "obstacle" THEN Append(obstacle, b.tag)
                          ELSE obstacle
    /\ bidx' = bidx + 1
    /\ UNCHANGED <<tpc, boundaries, groups, loopvars, partvars, diagvars,
                   bookvars>>

\* the four addPhysicalGroup calls: (marker, curves) in call order
AddPhysicalGroups ==
    /\ tpc = "classify" /\ bidx > Len(boundaries)
    /\ groups' = << [marker |-> wall_marker, curves |-> walls],
                    [marker |-> inlet_marker, curves |-> inflow],
                    [marker |-> outlet_marker, curves |-> outflow],
                    [marker |-> obstacle_marker, curves |-> obstacle] >>
    /\ tpc' = "tagged"
    /\ UNCHANGED <<boundaries, bidx, inflow, outflow, walls, obstacle,
                   loopvars, partvars, diagvars,
                   bookvars>>

(***************************************************************************)
(* The time loop.                                                          *)
(***************************************************************************)
\* u_inlet.interpolate(inlet_velocity): the profile of time iv_t
Interpolate(iv_t) == [profile_t |-> iv_t]

\* the colliding cells of a probe point on one rank: none, or MaxCells cells
CellLists == { <<>>, [j \in 1..MaxCells |-> MaxCells + 1 - j] }

\* the part of the zero-initialised arrays a bounded run can write
RecLen(sz) == Min(num_steps, IF RunCap(sz) > 0 THEN RunCap(sz) ELSE 0)

InitFields(sz, fc, bc) ==
    /\ pc = "top" /\ i = 0 /\ t = BigZero
    /\ inlet_t = BigZero
    /\ u_inlet = Interpolate(BigZero)
    /\ b1 = [assembled |-> FALSE, inlet |-> Interpolate(BigZero),
             un |-> 0, un1 |-> 0, p |-> 0]
    /\ u_s = 0 /\ phi = 0 /\ p_ = 0 /\ u_ = 0 /\ u_n = 0 /\ u_n1 = 0
    /\ ksp_log = <<>> /\ phi_log = <<>> /\ u_log = <<>>
    /\ size = sz
    /\ front_cells = fc /\ back_cells = bc
    /\ rpc = [r \in 0..sz-1 |-> "solve"]
    /\ chan = [r \in 0..sz-1 |-> <<>>]
    /\ gcalls = [r \in 0..sz-1 |-> <<>>]
    /\ drag_coeff = [r \in 0..sz-1 |-> None]
    /\ lift_coeff = [r \in 0..sz-1 |-> None]
    /\ p_front = [r \in 0..sz-1 |-> None]
    /\ p_back = [r \in 0..sz-1 |-> None]
    /\ t_u = [k \in 0..RecLen(sz)-1 |-> BigZero]
    /\ t_p = [k \in 0..RecLen(sz)-1 |-> BigZero]
    /\ C_D = [k \in 0..RecLen(sz)-1 |-> 0]
    /\ C_L = [k \in 0..RecLen(sz)-1 |-> 0]
    /\ p_diff = [k \in 0..RecLen(sz)-1 |-> 0]
\* the state before the first pass of the loop: both writers are open and
\* have written the initial state
InitLoop(sz, fc, bc) ==
    /\ InitFields(sz, fc, bc)
    /\ vtx = [steps |-> 1, open |-> TRUE]

LoopCondInclusive == i <= num_steps
\* for i in range(num_steps)
LoopCond == i < num_steps

\* inlet_velocity.t = t, after t += dt
InletTimeStale(t_old, t_new) == t_old
InletTime(t_old, t_new) == t_new

BeginStep ==
    /\ pc = "top" /\ LoopCond /\ i < RunCap(size)
    /\ t' = FAdd(t, dt)
    /\ inlet_t' = InletTime(t, t')
    /\ u_inlet' = Interpolate(inlet_t')
    /\ pc' = "assemble1"
    /\ UNCHANGED <<i, b1, u_s, phi, p_, u_, u_n, u_n1, vtx, ksp_log, phi_log,
                   u_log, partvars, diagvars, tagvars, bookvars>>

\* A1 and b1 from a1, L1 (u_n, u_n1, p_) and the boundary conditions bcu
Assemble1 ==
    /\ pc = "assemble1"
    /\ b1' = [assembled |-> TRUE, inlet |-> u_inlet,
              un |-> u_n, un1 |-> u_n1, p |-> p_]
    /\ pc' = "solve1"
    /\ UNCHANGED <<i, t, inlet_t, u_inlet, u_s, phi, p_, u_, u_n, u_n1, vtx,
                   ksp_log, phi_log, u_log, partvars, diagvars, tagvars, bookvars>>

\* solver1 called again when it returns a non-zero value
Solve1Retry ==
    /\ pc = "solve1"
    /\ \E x \in Vals : u_s' = x /\ pc' = IF x = 0 THEN "step2" ELSE "solve1"
    /\ ksp_log' = Append(ksp_log, 1)
    /\ UNCHANGED <<i, t, inlet_t, u_inlet, b1, phi, p_, u_, u_n, u_n1, vtx,
                   phi_log, u_log, partvars, diagvars, tagvars, bookvars>>
Solve1 ==
    /\ pc = "solve1"
    /\ \E x \in Vals : u_s' = x
    /\ ksp_log' = Append(ksp_log, 1)
    /\ pc' = "step2"
    /\ UNCHANGED <<i, t, inlet_t, u_inlet, b1, phi, p_, u_, u_n, u_n1, vtx,
                   phi_log, u_log, partvars, diagvars, tagvars, bookvars>>

\* b2 from L2 (u_s), then solver2
Step2 ==
    /\ pc = "step2"
    /\ \E x \in Vals : phi' = x /\ phi_log' = Append(phi_log, x)
    /\ ksp_log' = Append(ksp_log, 2)
    /\ pc' = "pupdate"
    /\ UNCHANGED <<i, t, inlet_t, u_inlet, b1, u_s, p_, u_, u_n, u_n1, vtx,
                   u_log, partvars, diagvars, tagvars, bookvars>>

AxpyOverwrite(alpha, x, y) == alpha * x
\* y.axpy(alpha, x): y = alpha * x + y
Axpy(alpha, x, y) == alpha * x + y

PressureUpdate ==
    /\ pc = "pupdate"
    /\ p_' = Axpy(1, phi, p_)
    /\ pc' = "step3"
    /\ UNCHANGED <<i, t, inlet_t, u_inlet, b1, u_s, phi, u_, u_n, u_n1, vtx,
                   ksp_log, phi_log, u_log, partvars, diagvars, tagvars, bookvars>>

\* b3 from L3 (u_s, phi), then solver3
Step3 ==
    /\ pc = "step3"
    /\ \E x \in Vals : u_' = x /\ u_log' = Append(u_log, x)
    /\ ksp_log' = Append(ksp_log, 3)
    /\ pc' = "write"
    /\ UNCHANGED <<i, t, inlet_t, u_inlet, b1, u_s, phi, p_, u_n, u_n1, vtx,
                   phi_log, partvars, diagvars, tagvars, bookvars>>

WriteSolution ==
    /\ pc = "write"
    /\ vtx' = [vtx EXCEPT !.steps = @ + 1]
    /\ pc' = "update"
    /\ UNCHANGED <<i, t, inlet_t, u_inlet, b1, u_s, phi, p_, u_, u_n, u_n1,
                   ksp_log, phi_log, u_log, partvars, diagvars, tagvars, bookvars>>

CopyPreviousSwapped(u, un, un1) ==
    LET n == u
    IN  [n |-> n, n1 |-> n]
\* loc_n.copy(loc_n1), then loc_.copy(loc_n)
CopyPrevious(u, un, un1) ==
    LET n1 == un
    IN  [n |-> u, n1 |-> n1]

UpdatePrevious ==
    /\ pc = "update"
    /\ u_n' = CopyPrevious(u_, u_n, u_n1).n
    /\ u_n1' = CopyPrevious(u_, u_n, u_n1).n1
    /\ pc' = "diag"
    /\ rpc' = [r \in Ranks |-> "drag"]
    /\ UNCHANGED <<i, t, inlet_t, u_inlet, b1, u_s, phi, p_, u_, vtx, ksp_log,
                   phi_log, u_log, partvars, chan, gcalls, drag_coeff,
                   lift_coeff, p_front, p_back, t_u, t_p, C_D, C_L, p_diff,
                   tagvars, bookvars>>

(***************************************************************************)
(* The diagnostics.  assemble_scalar and Function.eval are library calls:  *)
(* the local integral is linear in the fields and weighted by the rank's   *)
(* share of the obstacle, the point value tells the field, the rank, the   *)
(* point and the cell it was evaluated in.                                 *)
(***************************************************************************)
\* assemble_scalar(drag), assemble_scalar(lift) on rank r for fields u, p
DragOf(r, u, p) == (r + 1) * (u - p)
LiftOf(r, u, p) == 0 - (r + 1) * (u + p)
LocalDrag(r) == DragOf(r, u_, p_)
LocalLift(r) == LiftOf(r, u_, p_)
\* p.eval(points[k], cells) on rank r: one value per cell given
EvalOf(p, r, k, cells) ==
    [j \in 1..Len(cells) |->
        ((p * (NRanks + 1) + r) * (MaxCells + 1) + cells[j]) * 2 + k]
PointValue(r, k, cells) == EvalOf(p_, r, k, cells)

\* cells[:1]
FirstCell(cells) == <<cells[1]>>

LocalFront(r) ==
    IF Len(front_cells[r]) > 0
    THEN PointValue(r, 0, FirstCell(front_cells[r]))
    ELSE None
LocalBack(r) ==
    IF Len(back_cells[r]) > 0
    THEN PointValue(r, 1, FirstCell(back_cells[r]))
    ELSE None

\* comm.gather(val, root=0): the root waits for every contribution and gets
\* the list of them in rank order, the others send theirs and get None
GatherReady(r) == r = 0 => \A q \in Ranks \ {0} : chan[q] # <<>>
\* rank r can complete its call of the gather of this kind
GatherGuard(r, kind) == pc = "diag" /\ rpc[r] = kind /\ GatherReady(r)
GatherValue(r, val) ==
    IF r = 0
    THEN [k \in 1..size |-> IF k = 1 THEN val ELSE Head(chan[k-1]).val]
    ELSE None
GatherChan(r, kind, val) ==
    IF r = 0
    THEN [q \in Ranks |-> IF q = 0 THEN <<>> ELSE Tail(chan[q])]
    ELSE [chan EXCEPT ![r] = Append(@, [kind |-> kind, val |-> val])]

GatherDrag(r) ==
    /\ GatherGuard(r, "drag")
    /\ drag_coeff' = [drag_coeff EXCEPT ![r] = GatherValue(r, LocalDrag(r))]
    /\ chan' = GatherChan(r, "drag", LocalDrag(r))
    /\ gcalls' = [gcalls EXCEPT ![r] = Append(@, "drag")]
    /\ rpc' = [rpc EXCEPT ![r] = "lift"]
    /\ UNCHANGED <<loopvars, partvars, lift_coeff, p_front, p_back,
                   t_u, t_p, C_D, C_L, p_diff, tagvars, bookvars>>

GatherLift(r) ==
    /\ GatherGuard(r, "lift")
    /\ lift_coeff' = [lift_coeff EXCEPT ![r] = GatherValue(r, LocalLift(r))]
    /\ chan' = GatherChan(r, "lift", LocalLift(r))
    /\ gcalls' = [gcalls EXCEPT ![r] = Append(@, "lift")]
    /\ rpc' = [rpc EXCEPT ![r] = "front"]
    /\ UNCHANGED <<loopvars, partvars, drag_coeff, p_front, p_back,
                   t_u, t_p, C_D, C_L, p_diff, tagvars, bookvars>>

\* the gather inside "if len(front_cells) > 0"
GatherFrontGuarded(r) ==
    /\ pc = "diag" /\ rpc[r] = "front"
    /\ IF Len(front_cells[r]) > 0
       THEN /\ GatherReady(r)
            /\ p_front' = [p_front EXCEPT ![r] = GatherValue(r, LocalFront(r))]
            /\ chan' = GatherChan(r, "front", LocalFront(r))
            /\ gcalls' = [gcalls EXCEPT ![r] = Append(@, "front")]
       ELSE /\ p_front' = [p_front EXCEPT ![r] = None]
            /\ UNCHANGED <<chan, gcalls>>
    /\ rpc' = [rpc EXCEPT ![r] = "back"]
    /\ UNCHANGED <<loopvars, partvars, drag_coeff, lift_coeff, p_back,
                   t_u, t_p, C_D, C_L, p_diff, tagvars, bookvars>>
GatherFront(r) ==
    /\ GatherGuard(r, "front")
    /\ p_front' = [p_front EXCEPT ![r] = GatherValue(r, LocalFront(r))]
    /\ chan' = GatherChan(r, "front", LocalFront(r))
    /\ gcalls' = [gcalls EXCEPT ![r] = Append(@, "front")]
    /\ rpc' = [rpc EXCEPT ![r] = "back"]
    /\ UNCHANGED <<loopvars, partvars, drag_coeff, lift_coeff, p_back,
                   t_u, t_p, C_D, C_L, p_diff, tagvars, bookvars>>

GatherBack(r) ==
    /\ GatherGuard(r, "back")
    /\ p_back' = [p_back EXCEPT ![r] = GatherValue(r, LocalBack(r))]
    /\ chan' = GatherChan(r, "back", LocalBack(r))
    /\ gcalls' = [gcalls EXCEPT ![r] = Append(@, "back")]
    /\ rpc' = [rpc EXCEPT ![r] = IF r = 0 THEN "record" ELSE "end"]
    /\ UNCHANGED <<loopvars, partvars, drag_coeff, lift_coeff, p_front,
                   t_u, t_p, C_D, C_L, p_diff, tagvars, bookvars>>

RECURSIVE SumFrom(_, _)
SumFrom(list, k) == IF k > Len(list) THEN 0 ELSE list[k] + SumFrom(list, k+1)
SumRootOnly(list) == list[1]
\* sum(list)
Sum(list) == SumFrom(list, 1)

RECURSIVE FirstFrom(_, _)
FirstFrom(list, k) ==
    IF k > Len(list) THEN 0
    ELSE IF list[k] # None THEN k
    ELSE FirstFrom(list, k+1)
RECURSIVE LastFrom(_, _)
LastFrom(list, k) ==
    IF k < 1 THEN 0
    ELSE IF list[k] # None THEN k
    ELSE LastFrom(list, k-1)
FirstFoundLast(list) == LastFrom(list, Len(list))
\* index of the first entry that is not None, 0 when there is none:
\* "for pressure in list: if pressure is not None: ...; break"
FirstFound(list) == FirstFrom(list, 1)

\* p_diff[i] after the two loops over p_front and p_back
PressureDifference(old, fronts, backs) ==
    LET f == FirstFound(fronts)
        b == FirstFound(backs)
        d == IF f = 0 THEN old ELSE fronts[f][1]
    IN  IF b = 0 THEN d ELSE d - backs[b][1]

\* "if mesh.comm.rank == 0:" at the end of the loop body
Record ==
    /\ pc = "diag" /\ rpc[0] = "record"
    /\ t_u' = [t_u EXCEPT ![i] = t]
    /\ t_p' = [t_p EXCEPT ![i] = FSub(t, half_dt)]
    /\ C_D' = [C_D EXCEPT ![i] = Sum(drag_coeff[0])]
    /\ C_L' = [C_L EXCEPT ![i] = Sum(lift_coeff[0])]
    /\ p_diff' = [p_diff EXCEPT
                    ![i] = PressureDifference(@, p_front[0], p_back[0])]
    /\ rpc' = [rpc EXCEPT ![0] = "end"]
    /\ UNCHANGED <<loopvars, partvars, chan, gcalls, drag_coeff, lift_coeff,
                   p_front, p_back, tagvars, bookvars>>

\* the end of the loop body: every rank meets the others in the next
\* collective call (the assembly and solve of step 1)
EndIteration ==
    /\ pc = "diag" /\ \A r \in Ranks : rpc[r] = "end"
    /\ i' = i + 1
    /\ pc' = "top"
    /\ rpc' = [r \in Ranks |-> "solve"]
    /\ gcalls' = [r \in Ranks |-> <<>>]
    /\ UNCHANGED <<t, inlet_t, u_inlet, b1, u_s, phi, p_, u_, u_n, u_n1, vtx,
                   ksp_log, phi_log, u_log, partvars, chan, drag_coeff,
                   lift_coeff, p_front, p_back, t_u, t_p, C_D, C_L, p_diff,
                   tagvars, bookvars>>

\* vtx_u.close(), vtx_p.close() after the loop
LoopExit ==
    /\ pc = "top" /\ ~LoopCond
    /\ vtx' = [vtx EXCEPT !.open = FALSE]
    /\ pc' = "done"
    /\ UNCHANGED <<i, t, inlet_t, u_inlet, b1, u_s, phi, p_, u_, u_n, u_n1,
                   ksp_log, phi_log, u_log, partvars, diagvars, tagvars, bookvars>>

\* the time-stepping slice of the loop body: the statements that write i, t
\* and the inlet data (the solves and the diagnostics write none of them)
TimeAdvance ==
    /\ pc = "top" /\ LoopCond
    /\ t' = FAdd(t, dt)
    /\ inlet_t' = InletTime(t, t')
    /\ u_inlet' = Interpolate(inlet_t')
    /\ i' = i + 1
    /\ UNCHANGED <<pc, b1, u_s, phi, p_, u_, u_n, u_n1, vtx, ksp_log, phi_log,
                   u_log, partvars, diagvars, tagvars, bookvars>>

(***************************************************************************)
(* The nonlinear Poisson notebook: the Newton solve and the error norms.   *)
(* Every rank of MPI.COMM_WORLD runs the same script; size is the size of  *)
(* the communicator.                                                       *)
(***************************************************************************)
MaxNewton == 2      \* Newton iterations the solver may report

NotYet == [n |-> 0, converged |-> FALSE]

InitNewton(sz, el, nm) ==
    /\ npc = [r \in 0..sz-1 |-> "solve"]
    /\ newton = NotYet
    /\ error_local = el
    /\ nodal_max = nm
    /\ sum_buf = [r \in 0..sz-1 |-> None]
    /\ max_buf = [r \in 0..sz-1 |-> None]
    /\ error_L2 = [r \in 0..sz-1 |-> None]
    /\ error_max = [r \in 0..sz-1 |-> None]
    /\ out = <<>>

\* n, converged = solver.solve(uh): collective, every rank gets the same pair
NewtonSolve ==
    /\ \A r \in Ranks : npc[r] = "solve"
    /\ \E n \in 1..MaxNewton, c \in BOOLEAN :
            newton' = [n |-> n, converged |-> c]
    /\ npc' = [r \in Ranks |-> "assert"]
    /\ UNCHANGED <<error_local, nodal_max, sum_buf, max_buf, error_L2,
                   error_max, out, loopvars, partvars, diagvars, tagvars,
                   bldvars, phvars>>

\* the script without the assertion
AssertSkipped(flag) == TRUE
\* assert(converged) lets the script go on
AssertHolds(flag) == flag

\* an AssertionError ends the script on the rank
AssertConverged(r) ==
    /\ npc[r] = "assert"
    /\ npc' = [npc EXCEPT ![r] = IF AssertHolds(newton.converged)
                                 THEN "print_n" ELSE "failed"]
    /\ UNCHANGED <<newton, error_local, nodal_max, sum_buf, max_buf, error_L2,
                   error_max, out, loopvars, partvars, diagvars, tagvars,
                   bldvars, phvars>>

Line(r, text, val) == [rank |-> r, line |-> text, val |-> val]

\* print(f"Number of interations: {n:d}")
PrintIterations(r) ==
    /\ npc[r] = "print_n"
    /\ out' = Append(out, Line(r, "Number of interations", newton.n))
    /\ npc' = [npc EXCEPT ![r] = "allreduce_sum"]
    /\ UNCHANGED <<newton, error_local, nodal_max, sum_buf, max_buf, error_L2,
                   error_max, loopvars, partvars, diagvars, tagvars,
                   bldvars, phvars>>

\* every rank has contributed to the reduction
ReduceReady(buf) == \A q \in Ranks : buf[q] # None

RECURSIVE ReduceSumFrom(_, _)
ReduceSumFrom(buf, r) ==
    IF r >= size THEN 0 ELSE buf[r][1] + ReduceSumFrom(buf, r + 1)
\* op=MPI.SUM
ReduceSum(buf) == ReduceSumFrom(buf, 0)

RECURSIVE ReduceMaxFrom(_, _)
ReduceMaxFrom(buf, r) ==
    IF r >= size - 1 THEN buf[r][1]
    ELSE LET m == ReduceMaxFrom(buf, r + 1)
         IN  IF buf[r][1] > m THEN buf[r][1] ELSE m
\* op=MPI.MAX
ReduceMax(buf) == ReduceMaxFrom(buf, 0)

\* numpy.sqrt, on the integers of the model: the integer part of the root
Sqrt(x) == CHOOSE k \in 0..x : k * k <= x /\ x < (k + 1) * (k + 1)

\* the rank enters domain.comm.allreduce(error_local, op=MPI.SUM)
AllreduceSumEnter(r) ==
    /\ npc[r] = "allreduce_sum"
    /\ sum_buf' = [sum_buf EXCEPT ![r] = <<error_local[r]>>]
    /\ npc' = [npc EXCEPT ![r] = "sum_wait"]
    /\ UNCHANGED <<newton, error_local, nodal_max, max_buf, error_L2,
                   error_max, out, loopvars, partvars, diagvars, tagvars,
                   bldvars, phvars>>

\* the allreduce returns on the rank once every rank has entered it
AllreduceSumLeave(r) ==
    /\ npc[r] = "sum_wait" /\ ReduceReady(sum_buf)
    /\ error_L2' = [error_L2 EXCEPT ![r] = <<Sqrt(ReduceSum(sum_buf))>>]
    /\ npc' = [npc EXCEPT ![r] = "print_L2"]
    /\ UNCHANGED <<newton, error_local, nodal_max, sum_buf, max_buf,
                   error_max, out, loopvars, partvars, diagvars, tagvars,
                   bldvars, phvars>>

\* every rank prints
RankGuardNone(r) == TRUE
\* if domain.comm.rank == 0:
RankGuard(r) == r = 0

\* print(f"L2-error: {error_L2:.2e}") under the rank guard
PrintL2(r) ==
    /\ npc[r] = "print_L2"
    /\ out' = IF RankGuard(r)
              THEN Append(out, Line(r, "L2-error", error_L2[r][1]))
              ELSE out
    /\ npc' = [npc EXCEPT ![r] = "allreduce_max"]
    /\ UNCHANGED <<newton, error_local, nodal_max, sum_buf, max_buf, error_L2,
                   error_max, loopvars, partvars, diagvars, tagvars,
                   bldvars, phvars>>

\* the rank enters domain.comm.allreduce(numpy.max(...), op=MPI.MAX)
AllreduceMaxEnter(r) ==
    /\ npc[r] = "allreduce_max"
    /\ max_buf' = [max_buf EXCEPT ![r] = <<nodal_max[r]>>]
    /\ npc' = [npc EXCEPT ![r] = "max_wait"]
    /\ UNCHANGED <<newton, error_local, nodal_max, sum_buf, error_L2,
                   error_max, out, loopvars, partvars, diagvars, tagvars,
                   bldvars, phvars>>

AllreduceMaxLeave(r) ==
    /\ npc[r] = "max_wait" /\ ReduceReady(max_buf)
    /\ error_max' = [error_max EXCEPT ![r] = <<ReduceMax(max_buf)>>]
    /\ npc' = [npc EXCEPT ![r] = "print_max"]
    /\ UNCHANGED <<newton, error_local, nodal_max, sum_buf, max_buf,
                   error_L2, out, loopvars, partvars, diagvars, tagvars,
                   bldvars, phvars>>

\* print(f"Error_max: {error_max:.2e}") under the rank guard
PrintMax(r) ==
    /\ npc[r] = "print_max"
    /\ out' = IF RankGuard(r)
              THEN Append(out, Line(r, "Error_max", error_max[r][1]))
              ELSE out
    /\ npc' = [npc EXCEPT ![r] = "done"]
    /\ UNCHANGED <<newton, error_local, nodal_max, sum_buf, max_buf, error_L2,
                   error_max, loopvars, partvars, diagvars, tagvars,
                   bldvars, phvars>>

(***************************************************************************)
(* The book build: the execution of one notebook cell under the timeout    *)
(* of _config.yml.                                                         *)
(***************************************************************************)
\* execute: timeout, in seconds
timeout == 1800

InitBuild == exec = "running" /\ clock = 0

\* one more second of execution
Tick ==
    /\ exec = "running" /\ clock < timeout
    /\ clock' = clock + 1
    /\ UNCHANGED <<exec, loopvars, partvars, diagvars, tagvars, nlvars, phvars>>

\* the cell returns
CellFinishes ==
    /\ exec = "running"
    /\ exec' = "finished"
    /\ UNCHANGED <<clock, loopvars, partvars, diagvars, tagvars, nlvars, phvars>>

\* the cell has run for the whole timeout: the execution is stopped
CellTimeout ==
    /\ exec = "running" /\ clock >= timeout
    /\ exec' = "timeout"
    /\ UNCHANGED <<clock, loopvars, partvars, diagvars, tagvars, nlvars, phvars>>

(***************************************************************************)
(* The cells of the flow-past-a-cylinder notebook, run top to bottom, and  *)
(* the kind of work each does: "mesh", "spaces" (function spaces and       *)
(* boundary conditions), "forms", "solve", "post" (output written,         *)
(* physical quantities computed), "plot".                                  *)
(***************************************************************************)
InitPhases(at, sn, la) == nb_pc = at /\ seen = sn /\ last = la

Did(e) == seen' = seen \cup {e} /\ last' = e

\* gmsh geometry, markers, mesh generation, gmshio.model_to_mesh
BuildMesh ==
    /\ nb_pc = "mesh"
    /\ Did("mesh")
    /\ nb_pc' = "spaces"
    /\ UNCHANGED <<loopvars, partvars, diagvars, tagvars, nlvars, bldvars>>

\* parameters, V, Q, the inlet profile, the boundary conditions, the fields
DefineSpaces ==
    /\ nb_pc = "spaces"
    /\ Did("spaces")
    /\ nb_pc' = "forms"
    /\ UNCHANGED <<loopvars, partvars, diagvars, tagvars, nlvars, bldvars>>

\* F1, a1, L1, A1, b1; a2, L2, A2, b2; a3, L3, A3, b3
DefineForms ==
    /\ nb_pc = "forms"
    /\ Did("forms")
    /\ nb_pc' = "solvers"
    /\ UNCHANGED <<loopvars, partvars, diagvars, tagvars, nlvars, bldvars>>

\* solver1, solver2, solver3 created and configured, none invoked
CreateSolvers ==
    /\ nb_pc = "solvers"
    /\ nb_pc' = "diagnostics"
    /\ UNCHANGED <<seen, last, loopvars, partvars, diagvars, tagvars, nlvars,
                   bldvars>>

\* the drag and lift forms, the arrays of the records, the probe points
DefineDiagnostics ==
    /\ nb_pc = "diagnostics"
    /\ Did("forms")
    /\ nb_pc' = "writers"
    /\ UNCHANGED <<loopvars, partvars, diagvars, tagvars, nlvars, bldvars>>

\* vtx_u, vtx_p created; vtx_u.write(t), vtx_p.write(t) before the loop
OpenWriters ==
    /\ nb_pc = "writers"
    /\ vtx' = [steps |-> 1, open |-> TRUE]
    /\ Did("post")
    /\ nb_pc' = "loop"
    /\ UNCHANGED <<pc, i, t, inlet_t, u_inlet, b1, u_s, phi, p_, u_, u_n, u_n1,
                   ksp_log, phi_log, u_log, partvars, diagvars, tagvars,
                   nlvars, bldvars>>

\* one pass of the loop body up to the solve of step 3: the time and the
\* inlet data advanced, the three solvers invoked
BookSolve ==
    /\ nb_pc = "loop" /\ pc = "top" /\ LoopCond
    /\ t' = FAdd(t, dt)
    /\ inlet_t' = InletTime(t, t')
    /\ u_inlet' = Interpolate(inlet_t')
    /\ Did("solve")
    /\ nb_pc' = "record"
    /\ UNCHANGED <<pc, i, b1, u_s, phi, p_, u_, u_n, u_n1, vtx, ksp_log,
                   phi_log, u_log, partvars, diagvars, tagvars, nlvars,
                   bldvars>>

\* the rest of the loop body: the solution written, the physical quantities
\* gathered and recorded
BookRecord ==
    /\ nb_pc = "record"
    /\ vtx' = [vtx EXCEPT !.steps = @ + 1]
    /\ i' = i + 1
    /\ Did("post")
    /\ nb_pc' = "loop"
    /\ UNCHANGED <<pc, t, inlet_t, u_inlet, b1, u_s, phi, p_, u_, u_n, u_n1,
                   ksp_log, phi_log, u_log, partvars, diagvars, tagvars,
                   nlvars, bldvars>>

\* the plotting cell run while the loop is still running
PlotReadyInLoop == pc \in {"top", "done"}
\* the cell of the time loop has run to its end
PlotReady == pc = "done"

\* the comparison plots of drag, lift and pressure difference
Plot ==
    /\ nb_pc = "loop" /\ PlotReady
    /\ Did("plot")
    /\ nb_pc' = "end"
    /\ UNCHANGED <<loopvars, partvars, diagvars, tagvars, nlvars, bldvars>>

(***************************************************************************)
(* Specifications.                                                         *)
(***************************************************************************)
\* the tagged state of the benchmark geometry, for the runs of the time loop
Tagged ==
    /\ tpc = "tagged" /\ boundaries = <<>> /\ bidx = 1
    /\ inflow = <<>> /\ outflow = <<>> /\ walls = <<>> /\ obstacle = <<>>
    /\ groups = <<>>

\* the other scripts, not run
Idle(at, sn, la) ==
    /\ InitNewton(1, [r \in {0} |-> 0], [r \in {0} |-> 0])
    /\ InitBuild
    /\ InitPhases(at, sn, la)
\* the cylinder notebook at the start of its time loop
AtLoop == Idle("loop", {"mesh", "spaces", "forms", "post"}, "post")

\* the time loop on 1..NRanks processes, its first time steps
Init ==
    /\ Tagged
    /\ \E sz \in 1..NRanks :
         \E fc \in [0..sz-1 -> CellLists], bc \in [0..sz-1 -> CellLists] :
            InitLoop(sz, fc, bc)
    /\ AtLoop

Next ==
    \/ BeginStep \/ Assemble1 \/ Solve1 \/ Step2 \/ PressureUpdate \/ Step3
    \/ WriteSolution \/ UpdatePrevious
    \/ \E r \in Ranks : GatherDrag(r)
    \/ \E r \in Ranks : GatherLift(r)
    \/ \E r \in Ranks : GatherFront(r)
    \/ \E r \in Ranks : GatherBack(r)
    \/ Record
    \/ EndIteration

Spec == Init /\ [][Next]_vars

\* the time variables of a serial run, over the whole loop
InitTime ==
    /\ Tagged
    /\ InitLoop(1, [r \in {0} |-> <<>>], [r \in {0} |-> <<>>])
    /\ AtLoop

NextTime == TimeAdvance \/ LoopExit

SpecTime == InitTime /\ [][NextTime]_vars

\* the boundary tagging of any list of curves
InitTagging ==
    /\ \E n \in 0..MaxCurves : \E bs \in BoundaryLists(n) : InitTag(bs)
    /\ InitLoop(1, [r \in {0} |-> <<>>], [r \in {0} |-> <<>>])
    /\ Idle("mesh", {}, "none")

NextTag == ClassifyBoundary \/ AddPhysicalGroups

SpecTag == InitTagging /\ [][NextTag]_vars

\* the nonlinear Poisson notebook on 1..NRanks processes, from the Newton
\* solve on
InitPoisson ==
    /\ Tagged
    /\ \E sz \in 1..NRanks :
         /\ InitLoop(sz, [r \in 0..sz-1 |-> <<>>], [r \in 0..sz-1 |-> <<>>])
         /\ \E el \in [0..sz-1 -> Vals], nm \in [0..sz-1 -> Vals] :
                InitNewton(sz, el, nm)
    /\ InitBuild
    /\ InitPhases("mesh", {}, "none")

NextPoisson ==
    \/ NewtonSolve
    \/ \E r \in Ranks : AssertConverged(r)
    \/ \E r \in Ranks : PrintIterations(r)
    \/ \E r \in Ranks : AllreduceSumEnter(r)
    \/ \E r \in Ranks : AllreduceSumLeave(r)
    \/ \E r \in Ranks : PrintL2(r)
    \/ \E r \in Ranks : AllreduceMaxEnter(r)
    \/ \E r \in Ranks : AllreduceMaxLeave(r)
    \/ \E r \in Ranks : PrintMax(r)

SpecPoisson == InitPoisson /\ [][NextPoisson]_vars

\* the cylinder notebook from its first cell to its last, serial
InitBook ==
    /\ Tagged
    /\ InitFields(1, [r \in {0} |-> <<>>], [r \in {0} |-> <<>>])
    /\ vtx = [steps |-> 0, open |-> FALSE]
    /\ InitNewton(1, [r \in {0} |-> 0], [r \in {0} |-> 0])
    /\ InitBuild
    /\ InitPhases("mesh", {}, "none")

NextBook ==
    \/ BuildMesh \/ DefineSpaces \/ DefineForms \/ CreateSolvers
    \/ DefineDiagnostics \/ OpenWriters \/ BookSolve \/ BookRecord
    \/ LoopExit \/ Plot

SpecBook == InitBook /\ [][NextBook]_vars

\* one notebook cell executed by the book build
InitBuilding ==
    /\ Tagged
    /\ InitLoop(1, [r \in {0} |-> <<>>], [r \in {0} |-> <<>>])
    /\ InitNewton(1, [r \in {0} |-> 0], [r \in {0} |-> 0])
    /\ InitBuild
    /\ InitPhases("mesh", {}, "none")

NextBuild == Tick \/ CellFinishes \/ CellTimeout

SpecBuild == InitBuilding /\ [][NextBuild]_vars
(***************************************************************************)
(* Properties.                                                             *)
(***************************************************************************)
\* a * n for a small n
RECURSIVE MulFrom(_, _, _, _)
MulFrom(a, n, k, c) ==
    IF k > W THEN <<>>
    ELSE <<(a[k] * n + c) % Base>> \o MulFrom(a, n, k+1, (a[k] * n + c) \div Base)
BigMulSmall(a, n) == MulFrom(a, n, 1, 0)

\* 2^-38, about 3.6e-12
TimeTol == BigPow2(FracBits - 38)

\* C1 as stated: the loop runs exactly T/dt = 12800 iterations, t starts at
\* 0, and t equals the final time T when the loop exits.
C1_ExitAtFinalTime ==
    /\ num_steps = T * DtDen
    /\ i <= num_steps
    /\ (i = 0 => t = BigZero)
    /\ (pc = "done" => i = num_steps /\ t = FromInt(T))

\* C1, amended: the loop runs exactly num_steps = int(T/dt) = 12800
\* iterations and then terminates; t starts at 0 and is advanced by dt once
\* per iteration (t is within 2^-38 of i * dt); when the loop exits t equals
\* T only up to the accumulated rounding of the additions.
C1_TimeLoop ==
    /\ num_steps = T * DtDen
    /\ i <= num_steps
    /\ (i = 0 => t = BigZero)
    /\ FLeq(BigAbsDiff(t, BigMulSmall(dt, i)), TimeTol)
    /\ (pc = "done" => /\ i = num_steps
                       /\ ~vtx.open
                       /\ FLeq(BigAbsDiff(t, FromInt(T)), TimeTol))
C1_Witness == pc = "done" /\ i = T * DtDen /\ t # FromInt(T)

\* C2: the demo as shipped runs with the end time reduced to one second:
\* the simulated time t never exceeds 1 during the time loop.
C2_TimeAtMostOne == FLeq(t, FromInt(1))

SolvesDone ==
    CASE pc \in {"top", "assemble1", "solve1"} -> 0
      [] pc = "step2" -> 1
      [] pc \in {"pupdate", "step3"} -> 2
      [] OTHER -> 3

RECURSIVE SumTo(_, _)
\* the sum of the first n entries of a list
SumTo(list, n) == IF n = 0 THEN 0 ELSE SumTo(list, n - 1) + list[n]

Count(list, x) == Cardinality({k \in 1..Len(list) : list[k] = x})

\* C3: every iteration calls solver1, solver2, solver3 once each and in this
\* order, the pressure update between solver2 and solver3, whatever the
\* solvers return: the calls so far are 1,2,3,1,2,3,..., three per completed
\* iteration, and after n iterations each solver has been called n times.
C3_SolverSequence ==
    /\ Len(ksp_log) = 3 * i + SolvesDone
    /\ \A k \in 1..Len(ksp_log) : ksp_log[k] = ((k - 1) % 3) + 1
    /\ Len(phi_log) = i + (IF SolvesDone >= 2 THEN 1 ELSE 0)
    /\ Len(u_log) = i + (IF SolvesDone >= 3 THEN 1 ELSE 0)
    /\ (pc = "pupdate" => p_ = SumTo(phi_log, i))
    /\ (pc = "step3" => p_ = SumTo(phi_log, i + 1))
    /\ (pc = "top" => \A s \in 1..3 : Count(ksp_log, s) = i)
C3_Witness ==
    pc = "top" /\ i = 2 /\ ksp_log = <<1, 2, 3, 1, 2, 3>> /\ u_s = 1

RECURSIVE TimeLevel(_)
\* t after n time steps
TimeLevel(n) == IF n = 0 THEN BigZero ELSE FAdd(TimeLevel(n - 1), dt)

\* C4: in every iteration t is advanced and the inlet data is set to the new
\* time before A1 and b1 are assembled and solver1 is called: the inlet data
\* solver1 uses is that of the time level i+1, never that of level i.
C4_InletAtNewTime ==
    /\ (pc # "top" => t = TimeLevel(i + 1))
    /\ (pc \in {"assemble1", "solve1"} =>
            /\ inlet_t = t
            /\ u_inlet = Interpolate(TimeLevel(i + 1)))
    /\ (pc = "solve1" =>
            /\ b1.assembled
            /\ b1.inlet = Interpolate(TimeLevel(i + 1))
            /\ b1.inlet # Interpolate(TimeLevel(i)))
C4_Witness ==
    pc = "solve1" /\ i = 1 /\ b1.inlet = Interpolate(TimeLevel(2))

\* C5: p_ after the pressure-correction step is p_ before it plus the phi
\* just solved for, and p_ changes nowhere else: p_ is the sum of all the
\* corrections returned so far, but for the last one between solver2 and the
\* update; after n iterations it is the sum of the n corrections.
C5_PressureIsSumOfCorrections ==
    /\ (pc = "pupdate" => p_ + phi = SumTo(phi_log, Len(phi_log)))
    /\ (pc # "pupdate" => p_ = SumTo(phi_log, Len(phi_log)))
    /\ (SolvesDone >= 2 => phi = phi_log[Len(phi_log)])
    /\ (pc = "top" => Len(phi_log) = i /\ p_ = SumTo(phi_log, i))
C5_Witness == pc = "top" /\ i = 2 /\ phi_log = <<1, 1>> /\ p_ = 2

\* the velocity corrected in time step k (1, 2, ...), zero before the first
Corrected(k) == IF k >= 1 THEN u_log[k] ELSE 0

\* C6: at the start of (and throughout, until the update of) iteration i,
\* u_n is the corrected velocity of the previous iteration and u_n1 that of
\* the one before (zero where there is none); after the update u_n is the
\* new velocity and u_n1 the previous one, and u_ and p_ are unchanged.
C6_TwoPreviousLevels ==
    /\ (pc # "diag" => u_n = Corrected(i) /\ u_n1 = Corrected(i - 1))
    /\ (pc = "diag" =>
            /\ u_n = Corrected(i + 1) /\ u_n1 = Corrected(i)
            /\ u_ = Corrected(i + 1)
            /\ p_ = SumTo(phi_log, i + 1))
    /\ (pc = "solve1" => b1.un = Corrected(i) /\ b1.un1 = Corrected(i - 1))
C6_Witness ==
    pc = "top" /\ i = 2 /\ u_log = <<1, 0>> /\ u_n = 0 /\ u_n1 = 1

\* how often tag k is in a list
Occurs(list, k) == Cardinality({j \in 1..Len(list) : list[j] = k})
InLists(k) ==
    Occurs(inflow, k) + Occurs(outflow, k) + Occurs(walls, k) + Occurs(obstacle, k)
MarkersOf(k) ==
    {j \in 1..Len(groups) : Occurs(groups[j].curves, k) > 0}
MatchesNoCentre(com) ==
    /\ ~AllClose(com, InletCentre) /\ ~AllClose(com, OutletCentre)
    /\ ~AllClose(com, TopCentre) /\ ~AllClose(com, BottomCentre)

\* C7: the inflow gets marker 2, the outflow 3, the walls 4, the obstacle 5,
\* four distinct markers; every boundary curve the loop has passed is in
\* exactly one of the four lists, once, in the obstacle list when its centre
\* of mass matches no inlet, outlet or wall centre; so every curve is in
\* exactly one physical group.
C7_OneMarkerPerCurve ==
    /\ <<inlet_marker, outlet_marker, wall_marker, obstacle_marker>> = <<2, 3, 4, 5>>
    /\ \A k \in 1..Len(boundaries) :
         /\ InLists(boundaries[k].tag) = (IF k < bidx THEN 1 ELSE 0)
         /\ (k < bidx /\ MatchesNoCentre(boundaries[k].com)
                => Occurs(obstacle, boundaries[k].tag) = 1)
         /\ (k < bidx /\ AllClose(boundaries[k].com, InletCentre)
                => Occurs(inflow, boundaries[k].tag) = 1)
    /\ (tpc = "tagged" =>
            /\ bidx = Len(boundaries) + 1
            /\ \A k \in 1..Len(boundaries) :
                 Cardinality(MarkersOf(boundaries[k].tag)) = 1
            /\ \A j, k \in 1..Len(groups) :
                 j # k => groups[j].marker # groups[k].marker
            /\ \A j \in 1..Len(groups) :
                 groups[j].curves =
                    CASE groups[j].marker = inlet_marker -> inflow
                      [] groups[j].marker = outlet_marker -> outflow
                      [] groups[j].marker = wall_marker -> walls
                      [] OTHER -> obstacle)
\* the benchmark geometry: four sides and the disk
C7_Witness ==
    /\ tpc = "tagged" /\ Len(boundaries) = 5
    /\ Len(inflow) = 1 /\ Len(outflow) = 1 /\ Len(walls) = 2
    /\ Len(obstacle) = 1
    /\ \E k \in 1..5 : boundaries[k].com = <<c_x, c_y, 0>>
                       /\ obstacle = <<boundaries[k].tag>>

\* time step k has been recorded by rank 0
Recorded(k) == k < i \/ (k = i /\ pc = "diag" /\ rpc[0] = "end")
RECURSIVE SumRanks(_, _)
\* the sum of F(r) over the ranks r, ..., size-1
SumRanks(F(_), r) == IF r >= size THEN 0 ELSE F(r) + SumRanks(F, r + 1)

\* C8: for every time step k, C_D[k] (C_L[k]) on rank 0 is the sum over all
\* ranks of the rank's local drag (lift) integral, each rank once, evaluated
\* with the u_ and p_ produced in time step k.
C8_CoefficientsSummedOverRanks ==
    /\ \A k \in DOMAIN C_D :
         IF Recorded(k)
         THEN /\ C_D[k] = SumRanks(LAMBDA r :
                     DragOf(r, u_log[k + 1], SumTo(phi_log, k + 1)), 0)
              /\ C_L[k] = SumRanks(LAMBDA r :
                     LiftOf(r, u_log[k + 1], SumTo(phi_log, k + 1)), 0)
         ELSE C_D[k] = 0 /\ C_L[k] = 0
    /\ (pc = "diag" /\ rpc[0] \in {"record", "end"} =>
            /\ Len(drag_coeff[0]) = size /\ Len(lift_coeff[0]) = size
            /\ \A r \in Ranks : /\ drag_coeff[0][r + 1] = LocalDrag(r)
                                /\ lift_coeff[0][r + 1] = LocalLift(r))
C8_Witness ==
    /\ size = 2 /\ pc = "diag" /\ rpc[0] = "end" /\ i = 1
    /\ u_ = 1 /\ p_ = 0 /\ drag_coeff[0] = <<1, 2>> /\ C_D[1] = 3
    /\ C_D[0] # 3

\* the lowest rank that found a cell for the point, size when none did
RECURSIVE LowestFrom(_, _)
LowestFrom(cells, r) ==
    IF r >= size THEN size
    ELSE IF Len(cells[r]) > 0 THEN r
    ELSE LowestFrom(cells, r + 1)
Lowest(cells) == LowestFrom(cells, 0)
\* the value rank r reports for point k (0 front, 1 back) with pressure p:
\* the one of its first colliding cell
Reported(p, r, k, cells) == EvalOf(p, r, k, <<cells[r][1]>>)[1]

\* C9: for every time step k, p_diff[k] on rank 0 is the front-point
\* pressure reported by the lowest rank that found the front point minus the
\* back-point pressure reported by the lowest rank that found the back
\* point (a point no rank found contributes nothing): one value per point,
\* never a sum, each rank evaluating in its first colliding cell only.
C9_FirstPressureFound ==
    /\ \A k \in DOMAIN p_diff :
         IF Recorded(k)
         THEN p_diff[k] =
                (IF Lowest(front_cells) < size
                 THEN Reported(SumTo(phi_log, k + 1), Lowest(front_cells), 0,
                               front_cells)
                 ELSE 0)
                - (IF Lowest(back_cells) < size
                   THEN Reported(SumTo(phi_log, k + 1), Lowest(back_cells), 1,
                                 back_cells)
                   ELSE 0)
         ELSE p_diff[k] = 0
    /\ (pc = "diag" /\ rpc[0] \in {"record", "end"} =>
            \A r \in Ranks :
                /\ Len(p_front[0][r + 1]) <= 1
                /\ Len(p_back[0][r + 1]) <= 1
                /\ (Len(front_cells[r]) > 0 =>
                      p_front[0][r + 1] = <<Reported(p_, r, 0, front_cells)>>)
                /\ (Len(back_cells[r]) > 0 =>
                      p_back[0][r + 1] = <<Reported(p_, r, 1, back_cells)>>))
\* both ranks found the front point, only rank 1 the back point
C9_Witness ==
    /\ size = 2 /\ pc = "diag" /\ rpc[0] = "end" /\ p_ = 1
    /\ Len(front_cells[0]) > 1 /\ Len(front_cells[1]) > 0
    /\ back_cells[0] = <<>> /\ Len(back_cells[1]) > 1
    /\ p_diff[i] = Reported(p_, 0, 0, front_cells) - Reported(p_, 1, 1, back_cells)

GatherOrder == <<"drag", "lift", "front", "back">>
\* gathers a rank at this position has called in the current time step
CallsAt(pos) ==
    CASE pos = "drag" -> 0 [] pos = "lift" -> 1 [] pos = "front" -> 2
      [] pos = "back" -> 3 [] pos \in {"record", "end"} -> 4 [] OTHER -> 0
\* some rank can take its next step of the diagnostics
DiagStep ==
    \/ \E r \in Ranks : \E k \in 1..Len(GatherOrder) : GatherGuard(r, GatherOrder[k])
    \/ rpc[0] = "record"
    \/ \A r \in Ranks : rpc[r] = "end"

\* C10: in each time step every rank calls the four gathers in the order
\* drag, lift, p_front, p_back, unconditionally (None is contributed by a
\* rank without a cell for the point): what a rank has sent and the root
\* has not gathered yet are the gathers of that rank the root has still to
\* call, in order, so every gather gets all the contributions of its own
\* kind, and some rank can always take its next step.
C10_GathersMatch ==
    /\ \A r \in Ranks :
         /\ gcalls[r] = SubSeq(GatherOrder, 1, CallsAt(rpc[r]))
         /\ Len(chan[r]) = (IF r = 0 THEN 0 ELSE Len(gcalls[r]) - Len(gcalls[0]))
         /\ \A k \in 1..Len(chan[r]) :
              chan[r][k].kind = GatherOrder[Len(gcalls[0]) + k]
    /\ (pc = "diag" => DiagStep)
    /\ (pc = "diag" /\ rpc[0] \in {"record", "end"} =>
            \A r \in Ranks :
                /\ (p_front[0][r + 1] = None) = (front_cells[r] = <<>>)
                /\ (p_back[0][r + 1] = None) = (back_cells[r] = <<>>))
\* rank 1 has no cell for the front point and has called all four gathers
C10_Witness ==
    /\ size = 2 /\ pc = "diag" /\ front_cells[1] = <<>>
    /\ rpc[1] = "end" /\ rpc[0] = "record"
    /\ p_front[0][2] = None /\ Len(p_front[0]) = 2

\* the lines rank r has printed
PrintedBy(r) == {k \in 1..Len(out) : out[k].rank = r}

\* C11: nothing is printed before the convergence flag has been checked:
\* a rank prints the iteration count, and later the error norms, only after
\* solver.solve has returned converged = true and its assertion has passed;
\* when converged is false every rank stops at the assertion and no line at
\* all is printed.
C11_PrintOnlyIfConverged ==
    /\ \A k \in 1..Len(out) :
         /\ newton.converged
         /\ npc[out[k].rank] \notin {"solve", "assert", "failed"}
    /\ \A r \in Ranks :
         /\ (npc[r] \in {"solve", "assert", "failed"} => PrintedBy(r) = {})
         /\ (npc[r] = "failed" => ~newton.converged)
         /\ (npc[r] \notin {"solve", "assert", "failed"} => newton.converged)
         /\ (npc[r] \notin {"solve", "assert", "failed", "print_n"} =>
                \E k \in PrintedBy(r) :
                      out[k] = Line(r, "Number of interations", newton.n))
    /\ (~newton.converged =>
            /\ out = <<>>
            /\ \A r \in Ranks : /\ error_L2[r] = None /\ error_max[r] = None
                                /\ npc[r] \in {"solve", "assert", "failed"})
\* solver.solve has returned false and both ranks have stopped at the assert
C11_Witness ==
    /\ size = 2 /\ newton.n = 2 /\ ~newton.converged
    /\ \A r \in Ranks : npc[r] = "failed"
    /\ out = <<>>

\* the place of a kind of work in the order mesh, spaces and boundary
\* conditions, forms, solver, post-processing, plots
PhaseNo(e) ==
    CASE e = "mesh" -> 1 [] e = "spaces" -> 2 [] e = "forms" -> 3
      [] e = "solve" -> 4 [] e = "post" -> 5 [] e = "plot" -> 6
      [] OTHER -> 0
SetUp == {"mesh", "spaces", "forms"}

C13_TwentyMinuteTimeout ==
    /\ clock <= 20 * 60
    /\ (exec = "timeout" => clock = 20 * 60)

\* the lines with this text that have been printed
LinesOf(text) == {k \in 1..Len(out) : out[k].line = text}
\* the two reductions of the values the ranks hold
SumOfLocal == ReduceSum([r \in Ranks |-> <<error_local[r]>>])
MaxOfLocal == ReduceMax([r \in Ranks |-> <<nodal_max[r]>>])
\* some rank can take its next step of the script
PoissonStep ==
    \/ \A r \in Ranks : npc[r] = "solve"
    \/ \E r \in Ranks :
         \/ npc[r] \in {"assert", "print_n", "allreduce_sum", "print_L2",
                        "allreduce_max", "print_max"}
         \/ npc[r] = "sum_wait" /\ ReduceReady(sum_buf)
         \/ npc[r] = "max_wait" /\ ReduceReady(max_buf)
Finished == \A r \in Ranks : npc[r] = "done"
Failed == \A r \in Ranks : npc[r] = "failed"

\* C15: every rank that passes the assertion calls the SUM allreduce and
\* then the MAX allreduce, outside any rank guard, so that until all ranks
\* have finished some rank can always take a step; every rank obtains the
\* same reduced values, the root of the sum and the maximum over all ranks;
\* the lines 'L2-error' and 'Error_max' are printed by rank 0 only, never
\* twice, and exactly once each in a run that has finished, whatever the
\* number of processes.
C15_ReductionsCollective ==
    /\ (Finished \/ Failed \/ PoissonStep)
    /\ \A r \in Ranks :
         /\ (sum_buf[r] # None) =
                (npc[r] \in {"sum_wait", "print_L2", "allreduce_max",
                             "max_wait", "print_max", "done"})
         /\ (max_buf[r] # None) = (npc[r] \in {"max_wait", "print_max", "done"})
         /\ (error_L2[r] # None) =
                (npc[r] \in {"print_L2", "allreduce_max", "max_wait",
                             "print_max", "done"})
         /\ (error_max[r] # None) = (npc[r] \in {"print_max", "done"})
         /\ (error_L2[r] # None => error_L2[r] = <<Sqrt(SumOfLocal)>>)
         /\ (error_max[r] # None => error_max[r] = <<MaxOfLocal>>)
    /\ \A k \in LinesOf("L2-error") :
         out[k] = Line(0, "L2-error", Sqrt(SumOfLocal))
    /\ \A k \in LinesOf("Error_max") :
         out[k] = Line(0, "Error_max", MaxOfLocal)
    /\ Cardinality(LinesOf("L2-error")) =
         (IF npc[0] \in {"allreduce_max", "max_wait", "print_max", "done"}
          THEN 1 ELSE 0)
    /\ Cardinality(LinesOf("Error_max")) = (IF npc[0] = "done" THEN 1 ELSE 0)
    /\ (Finished => Len(out) = size + 2)
\* two ranks with different local errors have finished
C15_Witness ==
    /\ size = 2 /\ Finished
    /\ error_local = [r \in Ranks |-> r] /\ nodal_max = [r \in Ranks |-> 1 - r]
    /\ error_L2 = [r \in Ranks |-> <<1>>] /\ error_max = [r \in Ranks |-> <<1>>]
    /\ Cardinality(LinesOf("L2-error")) = 1
    /\ Cardinality(LinesOf("Error_max")) = 1
    /\ Cardinality(LinesOf("Number of interations")) = 2
=============================================================================
